---- MODULE Spec2Model ----
(***************************************************************************)
(* OptiNetSim-backend: the stored network's element list, the path adapter *)
(* (convert_to_gnpy_json) and the single-link simulation service           *)
(* (simulate_single_link_gnpy) behind POST /simulations/single-link.       *)
(*                                                                         *)
(* Numbers.  Decibel quantities (dB, dBm, dB/km) are integers in           *)
(* thousandths of a dB; lengths are integers in km.  A linear power in     *)
(* watts is either zero or a level: the record [zero |-> FALSE, lv |-> n]  *)
(* stands for 10^(n/10000) W, that is n thousandths of a dBW.              *)
(* Optional values are sequences: <<>> is None, <<x>> is the value x.      *)
(***************************************************************************)
EXTENDS Integers, Sequences, FiniteSets, TLC

VARIABLES
    elements,    \* NetworkInDB.elements of the stored network, in insertion order
    connections, \* NetworkInDB.connections of the stored network, in insertion order
    SI,          \* NetworkInDB.SI of the stored network
    updated_at,  \* NetworkInDB.updated_at, as the number of writes made to the document
    next_uuid,   \* the next value str(uuid6()) generates
    response,    \* None, or the request the client sent and the HTTP outcome it got
    inflight     \* the simulation requests in progress, by invocation

vars == <<elements, connections, SI, updated_at, next_uuid, response, inflight>>

\* Bounds of the model.
MaxElements == 3
MaxPathLen == 3
MaxWrites == 3

None == <<>>
Some(x) == <<x>>

Range(s) == {s[i] : i \in 1..Len(s)}

\* The id of the one stored network, an id that resolves to no record and a
\* string that is no ObjectId.
StoredNetworkId == "net-1"
NetworkIds == {StoredNetworkId, "net-unknown", "not an ObjectId"}

\* ObjectId.is_valid(network_id)
ObjectId_is_valid(network_id) == network_id # "not an ObjectId"

\* SIConfig: the default of tx_osnr, and a value a client may store instead.
SIConfig(tx_osnr) == [tx_osnr |-> tx_osnr]
SIConfigDefault == SIConfig(35000)
SIConfigs == {SIConfigDefault, SIConfig(45000)}

ElementTypes == {"Transceiver", "Edfa", "Roadm", "Fiber", "Fused", "RamanFiber"}

\* The kind-specific parameter records a client may send for each type.
ParamsFor(type) ==
    CASE type = "Fiber" -> {[length |-> 80, loss_coef |-> 200]}
      [] type = "RamanFiber" -> {[length |-> 80, loss_coef |-> 200]}
      [] type = "Edfa" -> {[gain_target |-> Some(20000), tilt_target |-> Some(1000)]}
      [] type = "Roadm" -> {[target_pch_out_db |-> None]}
      [] OTHER -> {[empty |-> TRUE]}

\* str(uuid6()): every call gives a value no earlier call gave.
uuid6 == next_uuid

(***************************************************************************)
(* Topology store.                                                         *)
(***************************************************************************)

\* A lookup that gives the stored network whatever id it is asked for.
get_network_ignoring_id(network_id) ==
    Some([elements |-> elements, connections |-> connections, SI |-> SI,
          updated_at |-> updated_at])

\* crud_network.get_network: the stored network, or None.
get_network(network_id) ==
    IF ~ObjectId_is_valid(network_id) THEN None
    ELSE IF network_id = StoredNetworkId
    THEN Some([elements |-> elements, connections |-> connections, SI |-> SI,
               updated_at |-> updated_at])
    ELSE None

\* ElementInDB(**element.model_dump(exclude={"element_id"})): the client's
\* element_id is dropped and a generated one is given.
ElementInDB(type, type_variety, params) ==
    [element_id |-> uuid6, type |-> type, type_variety |-> type_variety,
     params |-> params]

\* POST /networks/{id}/elements -> add_element_to_network: $push the new element.
add_element_to_network(type, type_variety, params) ==
    /\ Len(elements) < MaxElements
    /\ elements' = Append(elements, ElementInDB(type, type_variety, params))
    /\ next_uuid' = next_uuid + 1
    /\ updated_at' = updated_at + 1
    /\ UNCHANGED <<connections, SI, response, inflight>>

(***************************************************************************)
(* Exceptions.                                                             *)
(***************************************************************************)

\* An operator that models a Python function gives Return(value), or the
\* exception it raises: its class, its HTTP status code (0 when it has none),
\* its message and the line of the service or adapter the traceback names.
Raise(class, status_code, message, line) ==
    [raised |-> TRUE,
     exc |-> [class |-> class, status_code |-> status_code, message |-> message,
              line |-> line]]
Return(value) == [raised |-> FALSE, value |-> value]

\* raise SimulationError(message, status_code)
SimulationError(message, status_code, line) ==
    Raise("SimulationError", status_code, message, line)

(***************************************************************************)
(* Path adapter.                                                           *)
(***************************************************************************)

\* JSON scalars handed to the engine: a number, or a string.
Num(n) == [num |-> n]
Str(s) == [str |-> s]
IsNum(v) == DOMAIN v = {"num"}

\* A dictionary key that was never set.
NoKey == "<no key>"

\* list.index(x): the position of the first occurrence of x.
index(path, x) ==
    CHOOSE i \in 1..Len(path) : path[i] = x /\ \A j \in 1..(i - 1) : path[j] # x

\* One step of sorted(): el goes before the first element whose key is not smaller.
RECURSIVE insert_by_key(_, _, _)
insert_by_key(el, s, path) ==
    IF s = <<>> THEN <<el>>
    ELSE IF index(path, Head(s).element_id) >= index(path, el.element_id)
         THEN <<el>> \o s
         ELSE <<Head(s)>> \o insert_by_key(el, Tail(s), path)

\* sorted(path_elements, key=lambda el: path.index(el.element_id)), a stable sort.
RECURSIVE sorted(_, _)
sorted(s, path) ==
    IF s = <<>> THEN <<>>
    ELSE insert_by_key(Head(s), sorted(Tail(s), path), path)

\* [el for el in network.elements if el.element_id in path]
path_elements_of(network, path) ==
    SelectSeq(network.elements, LAMBDA el : el.element_id \in Range(path))

\* A resolver that reports the first missing id only.
missing_ids_first_only(path, found_ids) ==
    IF SelectSeq(path, LAMBDA pid : pid \notin found_ids) = <<>> THEN <<>>
    ELSE <<SelectSeq(path, LAMBDA pid : pid \notin found_ids)[1]>>

\* [pid for pid in path if pid not in found_ids]
missing_ids_of(path, found_ids) ==
    SelectSeq(path, LAMBDA pid : pid \notin found_ids)

\* The parameter mapping of one element (the if/elif chain on element.type).
gnpy_el_of(element) ==
    CASE element.type = "Transceiver" ->
            [uid |-> element.element_id, type |-> "Transceiver",
             type_variety |-> NoKey, params |-> None]
      [] element.type = "Fiber" ->
            [uid |-> element.element_id, type |-> "Fiber", type_variety |-> NoKey,
             params |-> Some([length |-> Num(element.params.length),
                              length_units |-> Str("km"),
                              att_in |-> Num(0),
                              con_in |-> Num(500),
                              con_out |-> Num(500),
                              type_variety |-> Str("SSMF"),
                              loss_coef |-> Str("element.params.loss_coef"),
                              dispersion |-> Str("element.params.dispersion"),
                              gamma |-> Str("element.params.gamma")])]
      [] element.type = "Edfa" ->
            [uid |-> element.element_id, type |-> "Edfa", type_variety |-> "default",
             params |-> Some([operational |->
                                 [gain_target |-> element.params.gain_target,
                                  att_in |-> Num(0),
                                  tilt_target |-> Num(0)]])]
      [] element.type = "Roadm" ->
            [uid |-> element.element_id, type |-> "Roadm", type_variety |-> NoKey,
             params |-> Some([att_in |-> Num(0),
                              per_degree_impairments |->
                                 [add_drop_osnr |-> Num(48000), pmd |-> Num(50),
                                  cd |-> Num(2000)]])]
      [] OTHER ->
            [uid |-> element.element_id, type |-> NoKey, type_variety |-> NoKey,
             params |-> None]

\* The connections generated from consecutive path ids.
gnpy_connections_of(path) ==
    [i \in 1..(IF Len(path) = 0 THEN 0 ELSE Len(path) - 1) |->
        [from_node |-> path[i], to_node |-> path[i + 1]]]

\* An adapter that takes the path only along the stored connections: it refuses
\* a path with two consecutive ids that no Connection of the network joins.
convert_to_gnpy_json_along_connections(network, path) ==
    LET path_elements == path_elements_of(network, path)
    IN  IF Len(path_elements) # Len(path)
        THEN Raise("HTTPException", 404,
                   [text |-> "The following element_ids from the path were not found in the network: {}",
                    missing_ids |-> missing_ids_of(path, {el.element_id : el \in Range(path_elements)})],
                   19)
        ELSE IF \E i \in 1..(Len(path) - 1) :
                    \A k \in 1..Len(network.connections) :
                        \/ network.connections[k].from_node # path[i]
                        \/ network.connections[k].to_node # path[i + 1]
        THEN Raise("HTTPException", 400, [text |-> "The path follows no connection"], 19)
        ELSE Return([elements |-> [i \in 1..Len(path_elements) |->
                                      gnpy_el_of(sorted(path_elements, path)[i])],
                     connections |-> gnpy_connections_of(path)])

\* convert_to_gnpy_json(network, path): the engine's JSON, or the 404 it raises.
convert_to_gnpy_json(network, path) ==
    LET path_elements == path_elements_of(network, path)
    IN  IF Len(path_elements) # Len(path)
        THEN LET found_ids == {el.element_id : el \in Range(path_elements)}
             IN  Raise("HTTPException", 404,
                       [text |-> "The following element_ids from the path were not found in the network: {}",
                        missing_ids |-> missing_ids_of(path, found_ids)],
                       19)
        ELSE LET ordered_path_elements == sorted(path_elements, path)
             IN  Return([elements |-> [i \in 1..Len(ordered_path_elements) |->
                                          gnpy_el_of(ordered_path_elements[i])],
                         connections |-> gnpy_connections_of(path)])

(***************************************************************************)
(* Propagation engine (gnpy): the JSON loader, the launch spectral state   *)
(* and the elements' transfer functions.                                   *)
(***************************************************************************)

\* Linear powers.
ZeroW == [zero |-> TRUE, lv |-> 0]
W(lv) == [zero |-> FALSE, lv |-> lv]

\* w multiplied by the linear factor of db decibels.
ScaleDb(w, db) == IF w.zero THEN w ELSE W(w.lv + db)

\* 10*log10(1 + 10^(-d/10)) for a level difference d >= 0, tabulated per dB.
LogSumTable ==
    <<3010, 2539, 2124, 1764, 1455, 1193, 973, 790, 639, 515, 414,
      332, 266, 212, 170, 135, 108, 86, 68, 54, 43>>
LogSumCorrection(d) ==
    IF d \div 1000 < Len(LogSumTable) THEN LogSumTable[(d \div 1000) + 1]
    ELSE IF d < 30000 THEN 14 ELSE IF d < 40000 THEN 2 ELSE 0

\* a + b in watts.
AddW(a, b) ==
    IF a.zero THEN b
    ELSE IF b.zero THEN a
    ELSE LET hi == IF a.lv >= b.lv THEN a.lv ELSE b.lv
             lo == IF a.lv >= b.lv THEN b.lv ELSE a.lv
         IN  W(hi + LogSumCorrection(hi - lo))


\* The amplifier models of the equipment catalog (eqpt_config.json), by variety.
EdfaCatalog == [variety \in {"default"} |-> [nf |-> 5000]]

\* 10*log10(h*f*B) in thousandths of a dBW: the ASE floor per unit gain and noise figure.
AseFloor == [lv |-> 0 - 84000]

\* One node of the engine's network, built from its JSON element.
node_from_json(el) ==
    CASE el.type = NoKey ->
            Raise("KeyError", 0, [text |-> "'type'", uid |-> el.uid], 57)
      [] el.type = "Fiber" ->
            IF IsNum(el.params[1].loss_coef) /\ IsNum(el.params[1].length)
            THEN Return([uid |-> el.uid, type |-> "Fiber",
                         loss |-> el.params[1].loss_coef.num * el.params[1].length.num])
            ELSE Raise("TypeError", 0,
                       [text |-> "fiber parameter is not a number", uid |-> el.uid], 57)
      [] el.type = "Edfa" ->
            IF el.type_variety \notin DOMAIN EdfaCatalog
               \/ el.params[1].operational.gain_target = None
            THEN Raise("MissingAmplifierModel", 0,
                       [text |-> "no amplifier model", uid |-> el.uid], 57)
            ELSE Return([uid |-> el.uid, type |-> "Edfa",
                         gain |-> el.params[1].operational.gain_target[1],
                         nf |-> EdfaCatalog[el.type_variety].nf])
      [] el.type = "Roadm" ->
            Return([uid |-> el.uid, type |-> "Roadm",
                    add_drop_osnr |-> el.params[1].per_degree_impairments.add_drop_osnr.num])
      [] OTHER ->
            Return([uid |-> el.uid, type |-> "Transceiver"])

\* network_from_json, then build_network: the nodes of the engine's network, or
\* the first exception met while building them.
network_from_json(gnpy_network_json) ==
    LET built == [i \in 1..Len(gnpy_network_json.elements) |->
                     node_from_json(gnpy_network_json.elements[i])]
        bad == {i \in 1..Len(built) : built[i].raised}
    IN  IF bad # {}
        THEN built[CHOOSE i \in bad : \A j \in bad : i <= j]
        ELSE Return([i \in 1..Len(built) |-> built[i].value])

\* The equipment's SI section, read from si_config.json.
si_config == [tx_osnr |-> 40000]

\* create_input_spectral_information: the reporting channel at launch; the
\* launch power in dBm becomes watts, and no noise is present yet.
create_input_spectral_information(tx_osnr, tx_power) ==
    [signal |-> W(tx_power - 30000), ase |-> ZeroW, nli |-> ZeroW]

\* element.propagate(spectral_info): the element's transfer function.
propagate(node, spectral_info) ==
    CASE node.type = "Fiber" ->
            [signal |-> ScaleDb(spectral_info.signal, 0 - node.loss),
             ase |-> ScaleDb(spectral_info.ase, 0 - node.loss),
             nli |-> ScaleDb(spectral_info.nli, 0 - node.loss)]
      [] node.type = "Edfa" ->
            [signal |-> ScaleDb(spectral_info.signal, node.gain),
             ase |-> AddW(ScaleDb(spectral_info.ase, node.gain),
                          W(AseFloor.lv + node.nf + node.gain)),
             nli |-> ScaleDb(spectral_info.nli, node.gain)]
      [] node.type = "Roadm" ->
            [signal |-> spectral_info.signal,
             ase |-> AddW(spectral_info.ase,
                          ScaleDb(spectral_info.signal, 0 - node.add_drop_osnr)),
             nli |-> spectral_info.nli]
      [] OTHER -> spectral_info

(***************************************************************************)
(* Simulation service.                                                     *)
(***************************************************************************)

\* float('inf'), and a finite float.
Inf == [inf |-> TRUE, v |-> 0]
Fin(x) == [inf |-> FALSE, v |-> x]

\* round(x, 2): to the nearest hundredth of a dB, ties to even.
round2(x) ==
    LET q == x \div 10
        r == x % 10
    IN  IF r < 5 THEN 10 * q
        ELSE IF r > 5 THEN 10 * (q + 1)
        ELSE IF q % 2 = 0 THEN 10 * q ELSE 10 * (q + 1)

\* 10 * math.log10(watts * 1000); math.log10 raises ValueError on 0.
power_dbm(watts, line) ==
    IF watts.zero THEN Raise("ValueError", 0, [text |-> "math domain error"], line)
    ELSE Return(watts.lv + 30000)

\* lin2db(signal / total_noise) if total_noise > 0 else float('inf')
osnr_db(signal, total_noise) ==
    IF ~total_noise.zero THEN Fin(signal.lv - total_noise.lv) ELSE Inf

\* round(osnr, 2) if osnr != float('inf') else None
reported_osnr(osnr) == IF osnr # Inf THEN Some(round2(osnr.v)) ELSE None

\* (output_total_noise - input_total_noise) * 1000, kept as the two powers it
\* is the difference of; the literal 0 is the difference of two zero powers.
noise_difference_mw(after, before) == [after |-> after, before |-> before]
ZeroNoiseMw == noise_difference_mw(ZeroW, ZeroW)

\* SimulationStepResult(...): pydantic validates the fields on construction; the
\* fields declared float take no None.
SimulationStepResult(element_id, element_type, input_power_dbm, input_osnr_db, output_power_dbm, output_osnr_db, added_noise_mw, line) ==
    IF input_power_dbm = None \/ output_power_dbm = None
    THEN Raise("ValidationError", 0,
               [text |-> "validation error for SimulationStepResult: Input should be a valid number"],
               line)
    ELSE Return([element_id |-> element_id, element_type |-> element_type,
                 input_power_dbm |-> input_power_dbm,
                 input_osnr_db |-> input_osnr_db,
                 output_power_dbm |-> output_power_dbm,
                 output_osnr_db |-> output_osnr_db,
                 added_noise_mw |-> added_noise_mw])

\* The step appended at the end of one pass of the loop.
loop_step(element, walk, after, input_total_noise, output_total_noise, input_power_dbm, output_power_dbm) ==
    IF input_power_dbm.raised THEN input_power_dbm
    ELSE IF output_power_dbm.raised THEN output_power_dbm
    ELSE SimulationStepResult(
             element.uid, element.type,
             Some(round2(input_power_dbm.value)),
             reported_osnr(osnr_db(walk.spectral_info.signal, input_total_noise)),
             Some(round2(output_power_dbm.value)),
             reported_osnr(osnr_db(after.signal, output_total_noise)),
             noise_difference_mw(output_total_noise, input_total_noise),
             133)

\* path_results.append(step), with the spectral state the element left.
append_step(element, walk, after, step) ==
    IF step.raised THEN step
    ELSE Return([spectral_info |-> after,
                 path_results |-> Append(walk.path_results, step.value),
                 propagated |-> Append(walk.propagated, element.uid)])

\* The state after element.propagate(spectral_info), measured and recorded.
measure_after(element, walk, after) ==
    append_step(element, walk, after,
                loop_step(element, walk, after,
                          AddW(walk.spectral_info.ase, walk.spectral_info.nli),
                          AddW(after.ase, after.nli),
                          power_dbm(walk.spectral_info.signal, 117),
                          power_dbm(after.signal, 126)))

\* One pass of the body of `for element in path_elements[1:]`, after the
\* Transceiver test: measure, propagate, measure, append the step.
loop_body(element, walk) ==
    measure_after(element, walk, propagate(element, walk.spectral_info))

\* for element in path_elements[1:]: a Transceiver breaks the loop.
RECURSIVE propagation_loop(_, _)
loop_continue(rest, next) ==
    IF next.raised THEN next ELSE propagation_loop(Tail(rest), next.value)
propagation_loop(rest, walk) ==
    IF rest = <<>> THEN Return(walk)
    ELSE IF Head(rest).type = "Transceiver" THEN Return(walk)
    ELSE loop_continue(rest, loop_body(Head(rest), walk))

\* node_map.get(uid)
node_map_get(nodes, uid) ==
    IF \E i \in 1..Len(nodes) : nodes[i].uid = uid
    THEN Some(nodes[CHOOSE i \in 1..Len(nodes) : nodes[i].uid = uid])
    ELSE None

\* The response built from path_results (and the `if not path_results` guard).
build_response(walk) ==
    IF walk.raised THEN walk
    ELSE IF walk.value.path_results = <<>>
    THEN SimulationError([text |-> "Simulation failed to produce results."], 500, 145)
    ELSE Return([path_results |-> walk.value.path_results,
                 final_osnr_db |->
                     walk.value.path_results[Len(walk.value.path_results)].output_osnr_db,
                 final_power_dbm |->
                     walk.value.path_results[Len(walk.value.path_results)].output_power_dbm,
                 propagated |-> walk.value.propagated])

\* From the transmitter's step on: the loop over path_elements[1:] and the response.
after_tx_step(path_elements, spectral_info, tx_step) ==
    IF tx_step.raised THEN tx_step
    ELSE build_response(
             propagation_loop(Tail(path_elements),
                              [spectral_info |-> spectral_info,
                               path_results |-> <<tx_step.value>>,
                               propagated |-> <<>>]))

\* From path_elements on: the emptiness and Transceiver checks, the
\* transmitter's step, the loop.
check_and_walk(request, path_elements) ==
    IF path_elements = <<>>
    THEN SimulationError([text |-> "Simulation path is empty."], 400, 82)
    ELSE IF path_elements[1].type # "Transceiver"
    THEN SimulationError(
             [text |-> "Path must start with a Transceiver, but started with {}.",
              type |-> path_elements[1].type],
             400, 89)
    ELSE after_tx_step(
             path_elements,
             create_input_spectral_information(si_config.tx_osnr, request.input_power_dbm),
             SimulationStepResult(path_elements[1].uid, path_elements[1].type,
                                  None, None,
                                  Some(request.input_power_dbm),
                                  Some(si_config.tx_osnr),
                                  ZeroNoiseMw, 98))

\* for uid in request.path: node_map.get(uid), raising on the first None.
lookup_path(request, found) ==
    IF \E i \in 1..Len(found) : found[i] = None
    THEN SimulationError(
             [text |-> "Element with UID '{}' from path not found in the network.",
              uid |-> request.path[CHOOSE i \in 1..Len(found) :
                                      /\ found[i] = None
                                      /\ \A j \in 1..(i - 1) : found[j] # None]],
             404, 78)
    ELSE check_and_walk(request, [i \in 1..Len(found) |-> found[i][1]])

\* From the built network on.
with_network(request, network) ==
    IF network.raised THEN network
    ELSE lookup_path(request,
                     [i \in 1..Len(request.path) |->
                         node_map_get(network.value, request.path[i])])

\* The body of the try block of simulate_single_link_gnpy.
try_block(request, gnpy_network_json) ==
    with_network(request, network_from_json(gnpy_network_json))

\* except Exception as e: raise SimulationError("GNPy simulation engine error: ...", 500)
except_Exception(result) ==
    IF result.raised
    THEN SimulationError([text |-> "GNPy simulation engine error: {}",
                          cause |-> result.exc], 500, 161)
    ELSE result

\* From the adapter's result on: its HTTPException leaves the function as it is.
with_gnpy_json(request, gnpy_network_json) ==
    IF gnpy_network_json.raised THEN gnpy_network_json
    ELSE except_Exception(try_block(request, gnpy_network_json.value))

\* simulate_single_link_gnpy from the return of `await crud_network.get_network`
\* on: the rest of the function runs without a suspension point.
after_get_network(request, network) ==
    IF network = None
    THEN SimulationError([text |-> "Network with id {} not found.",
                          network_id |-> request.network_id], 404, 36)
    ELSE with_gnpy_json(request, convert_to_gnpy_json(network[1], request.path))

\* simulate_single_link_gnpy(db, request)
simulate_single_link_gnpy(request) ==
    after_get_network(request, get_network(request.network_id))

\* POST /simulations/single-link: a SimulationError becomes an HTTPException
\* with its status code and message; any other outcome passes through.
http_outcome(results) ==
    IF results.raised
    THEN [status_code |-> results.exc.status_code,
          detail |-> Some(results.exc.message), body |-> None]
    ELSE [status_code |-> 200, detail |-> None, body |-> Some(results.value)]

\* An endpoint that answers from module-level state an earlier run has left.
run_single_link_simulation_stateful(request) ==
    IF response # None
    THEN [status_code |-> 500,
          detail |-> Some([text |-> "GNPy simulation engine error: {}"]), body |-> None]
    ELSE http_outcome(simulate_single_link_gnpy(request))

run_single_link_simulation(request) == http_outcome(simulate_single_link_gnpy(request))

\* The requests a client sends.
Paths == UNION {[1..n -> 1..MaxElements] : n \in 0..MaxPathLen}
LaunchPowers == {0, 2000}
Requests ==
    [network_id : {StoredNetworkId}, path : Paths, input_power_dbm : LaunchPowers]
    \cup [network_id : NetworkIds \ {StoredNetworkId}, path : {<<>>, <<1>>},
          input_power_dbm : {0}]

(***************************************************************************)
(* Actions.                                                                *)
(***************************************************************************)

Init ==
    /\ elements = <<>>
    /\ connections = <<>>
    /\ SI = SIConfigDefault
    /\ updated_at = 0
    /\ next_uuid = 1
    /\ response = None
    /\ inflight = <<>>

\* The client, between two simulations, adds an element to the stored network.
AddElement ==
    /\ response = None
    /\ \E type \in ElementTypes :
          \E params \in ParamsFor(type) :
              add_element_to_network(type, None, params)

\* A simulation that also stamps the stored network.
SimulateTouching ==
    /\ response = None
    /\ \E request \in Requests :
          response' = Some([request |-> request,
                            outcome |-> run_single_link_simulation(request),
                            again |-> None])
    /\ updated_at' = updated_at + 1
    /\ UNCHANGED <<elements, connections, SI, next_uuid, inflight>>

\* A client asks for a simulation and gets the answer.
Simulate ==
    /\ response = None
    /\ \E request \in Requests :
          response' = Some([request |-> request,
                            outcome |-> run_single_link_simulation(request),
                            again |-> None])
    /\ UNCHANGED <<elements, connections, SI, updated_at, next_uuid, inflight>>

\* The client has read the answer.
Acknowledge ==
    /\ response # None
    /\ response' = None
    /\ UNCHANGED <<elements, connections, SI, updated_at, next_uuid, inflight>>

Next == AddElement \/ Simulate \/ Acknowledge

Spec == Init /\ [][Next]_vars

\* The client sends the request it holds the answer of once more, the stored
\* network being what it was.
Rerun ==
    /\ response # None
    /\ response[1].again = None
    /\ response' = Some([response[1] EXCEPT
                            !.again = Some(run_single_link_simulation(response[1].request))])
    /\ UNCHANGED <<elements, connections, SI, updated_at, next_uuid, inflight>>

NextRerun == AddElement \/ Simulate \/ Rerun \/ Acknowledge

SpecRerun == Init /\ [][NextRerun]_vars

\* PATCH /networks/{id}/spectrum-information -> update_si_config: $set the SI fields.
update_si_config(payload) ==
    /\ SI' = payload
    /\ updated_at' = updated_at + 1
    /\ UNCHANGED <<elements, connections, next_uuid, response, inflight>>

\* The client, between two simulations, stores another spectral configuration.
UpdateSI ==
    /\ response = None
    /\ updated_at < MaxWrites
    /\ \E payload \in SIConfigs : update_si_config(payload)

NextSI == AddElement \/ UpdateSI \/ Simulate \/ Acknowledge

SpecSI == Init /\ [][NextSI]_vars

(***************************************************************************)
(* Concurrent simulations.  simulate_single_link_gnpy has one suspension   *)
(* point, `await crud_network.get_network`; an invocation is suspended     *)
(* there, then runs to its answer without another.                         *)
(***************************************************************************)

Invocations == {"a", "b"}

\* The requests the concurrent clients send.
ConcurrentRequests ==
    [network_id : {StoredNetworkId}, path : {<<1>>, <<1, 2>>}, input_power_dbm : {0}]
    \cup [network_id : {"net-unknown"}, path : {<<1>>}, input_power_dbm : {0}]

\* An invocation that, when it resumes, reads the store again and not the
\* network its own await returned.
resumed_outcome_shared(request, network) ==
    http_outcome(after_get_network(request, get_network(request.network_id)))

\* The answer of an invocation that resumes with the network its await returned.
resumed_outcome(request, network) ==
    http_outcome(after_get_network(request, network))

\* The endpoint is called: the invocation reaches `await get_network`.
Call(i) ==
    /\ i \notin DOMAIN inflight
    /\ \E request \in ConcurrentRequests :
          inflight' = inflight @@ (i :> [pc |-> "await get_network", request |-> request,
                                         network |-> None, stale |-> FALSE,
                                         outcome |-> None])
    /\ UNCHANGED <<elements, connections, SI, updated_at, next_uuid, response>>

\* The database answers: the invocation holds the network it read.
GetNetworkReturns(i) ==
    /\ i \in DOMAIN inflight
    /\ inflight[i].pc = "await get_network"
    /\ inflight' = [inflight EXCEPT
                       ![i].pc = "resume",
                       ![i].network = get_network(inflight[i].request.network_id)]
    /\ UNCHANGED <<elements, connections, SI, updated_at, next_uuid, response>>

\* The invocation resumes and runs to its answer; stale tells whether the
\* store was written to since the invocation read it.
Resume(i) ==
    /\ i \in DOMAIN inflight
    /\ inflight[i].pc = "resume"
    /\ inflight' = [inflight EXCEPT
                       ![i].pc = "done",
                       ![i].stale =
                           (get_network(inflight[i].request.network_id) # inflight[i].network),
                       ![i].outcome =
                           Some(resumed_outcome(inflight[i].request, inflight[i].network))]
    /\ UNCHANGED <<elements, connections, SI, updated_at, next_uuid, response>>

NextConcurrent ==
    \/ AddElement
    \/ \E i \in Invocations : Call(i)
    \/ \E i \in Invocations : GetNetworkReturns(i)
    \/ \E i \in Invocations : Resume(i)

SpecConcurrent == Init /\ [][NextConcurrent]_vars

(***************************************************************************)
(* Topology operations: elements, connections, import, sub-topology.       *)
(***************************************************************************)

\* The answer of a topology endpoint.
Answer(status_code, code, body) ==
    [status_code |-> status_code, detail |-> code, body |-> body]

\* The k-th value str(uuid6()) gives within one handler.
uuid6_nth(k) == uuid6 + (k - 1)

\* any(el.element_id == element_id for el in network.elements)
element_exists(element_id) ==
    \E i \in 1..Len(elements) : elements[i].element_id = element_id

\* The first element of the network with the id (the handlers call it when one exists).
get_element_from_network(element_id) ==
    elements[CHOOSE i \in 1..Len(elements) :
                 /\ elements[i].element_id = element_id
                 /\ \A j \in 1..(i - 1) : elements[j].element_id # element_id]

\* FiberParams, RamanFiberParams, EdfaParams, RoadmParams: the params of a
\* stored element as the model classes read them, a key the document does not
\* hold taking the default of its class and an undeclared key being dropped.
params_as_read(type, params) ==
    CASE type \in {"Fiber", "RamanFiber"} ->
             [length |-> IF "length" \in DOMAIN params THEN params.length ELSE 80,
              loss_coef |-> IF "loss_coef" \in DOMAIN params THEN params.loss_coef ELSE 215]
      [] type = "Edfa" ->
             [gain_target |-> IF "gain_target" \in DOMAIN params
                              THEN params.gain_target ELSE None,
              tilt_target |-> IF "tilt_target" \in DOMAIN params
                              THEN params.tilt_target ELSE None]
      [] type = "Roadm" ->
             [target_pch_out_db |-> IF "target_pch_out_db" \in DOMAIN params
                                    THEN params.target_pch_out_db ELSE None]
      [] OTHER -> [empty |-> TRUE]

\* NetworkInDB(**doc): a stored element as get_network returns it.
read_element(el) == [el EXCEPT !.params = params_as_read(el.type, el.params)]

\* ElementUpdate(**body).model_dump(exclude_unset=True): the model declares no
\* `type` field, and pydantic drops the keys a model does not declare.
ElementUpdate(body) ==
    [set |-> {key \in {"type_variety", "params"} : body[key] # None},
     type_variety |-> body.type_variety,
     params |-> body.params]

\* $set elements.$.<key> on the first element with the id: the value of each
\* key of update_data takes the place of the stored value, params as a whole.
set_element_fields(element_id, update_data) ==
    [i \in 1..Len(elements) |->
        IF /\ elements[i].element_id = element_id
           /\ \A j \in 1..(i - 1) : elements[j].element_id # element_id
        THEN [elements[i] EXCEPT
                 !.type_variety = IF "type_variety" \in update_data.set
                                  THEN update_data.type_variety ELSE @,
                 !.params = IF "params" \in update_data.set
                            THEN update_data.params[1] ELSE @]
        ELSE elements[i]]

\* The element the handler returns: the first with the id in the network read
\* again after the write.
updated_element(element_id, stored) ==
    read_element(stored[CHOOSE i \in 1..Len(stored) :
                            /\ stored[i].element_id = element_id
                            /\ \A j \in 1..(i - 1) : stored[j].element_id # element_id])

\* PATCH /networks/{id}/elements/{element_id} -> update_element_in_network
update_element_in_network(element_id, body) ==
    /\ UNCHANGED <<connections, SI, next_uuid, inflight>>
    /\ IF ~element_exists(element_id)
       THEN /\ response' = Some([request |-> [op |-> "update_element",
                                              network_id |-> StoredNetworkId,
                                              element_id |-> element_id, body |-> body],
                                 outcome |-> Answer(404, Some("ELEMENT_NOT_FOUND"), None)])
            /\ UNCHANGED <<elements, updated_at>>
       ELSE IF ElementUpdate(body).set = {}
       THEN /\ response' = Some([request |-> [op |-> "update_element",
                                              network_id |-> StoredNetworkId,
                                              element_id |-> element_id, body |-> body],
                                 outcome |-> Answer(200, None,
                                                    Some(updated_element(element_id, elements)))])
            /\ UNCHANGED <<elements, updated_at>>
       ELSE /\ elements' = set_element_fields(element_id, ElementUpdate(body))
            /\ updated_at' = updated_at + 1
            /\ response' = Some([request |-> [op |-> "update_element",
                                              network_id |-> StoredNetworkId,
                                              element_id |-> element_id, body |-> body],
                                 outcome |->
                                     Answer(200, None,
                                            Some(updated_element(
                                                     element_id,
                                                     set_element_fields(element_id,
                                                                        ElementUpdate(body)))))])

\* DELETE /networks/{id}/elements/{element_id} -> delete_element_from_network:
\* $pull the elements with the id and $set updated_at, which modifies the
\* document whether or not an element was pulled.
delete_element_from_network(element_id) ==
    /\ elements' = SelectSeq(elements, LAMBDA el : el.element_id # element_id)
    /\ updated_at' = updated_at + 1
    /\ response' = Some([request |-> [op |-> "delete_element",
                                      network_id |-> StoredNetworkId,
                                      element_id |-> element_id],
                         outcome |-> Answer(204, None, None)])
    /\ UNCHANGED <<connections, SI, next_uuid, inflight>>

\* ConnectionInDB(from_node=..., to_node=...), its connection_id generated.
ConnectionInDB(connection_id, from_node, to_node) ==
    [connection_id |-> connection_id, from_node |-> from_node, to_node |-> to_node]

\* POST /networks/{id}/connections -> create_connection, add_connection_to_network
create_connection(from_node, to_node) ==
    /\ UNCHANGED <<elements, SI, inflight>>
    /\ IF ~element_exists(from_node) \/ ~element_exists(to_node)
       THEN /\ response' = Some([request |-> [op |-> "create_connection",
                                              network_id |-> StoredNetworkId,
                                              from_node |-> from_node, to_node |-> to_node],
                                 outcome |-> Answer(400, Some("INVALID_CONNECTION"), None)])
            /\ UNCHANGED <<connections, updated_at, next_uuid>>
       ELSE /\ connections' = Append(connections, ConnectionInDB(uuid6, from_node, to_node))
            /\ next_uuid' = next_uuid + 1
            /\ updated_at' = updated_at + 1
            /\ response' = Some([request |-> [op |-> "create_connection",
                                              network_id |-> StoredNetworkId,
                                              from_node |-> from_node, to_node |-> to_node],
                                 outcome |->
                                     Answer(201, None,
                                            Some(ConnectionInDB(uuid6, from_node, to_node)))])

\* element_id_map: the generated id of the last element that came with the
\* client's id, or None (dict assignment: a later entry replaces an earlier).
element_id_map_get(el_creates, first_new_id, client_id) ==
    IF \E k \in 1..Len(el_creates) : el_creates[k].element_id = Some(client_id)
    THEN Some(first_new_id + (CHOOSE k \in 1..Len(el_creates) :
                 /\ el_creates[k].element_id = Some(client_id)
                 /\ \A j \in (k + 1)..Len(el_creates) :
                        el_creates[j].element_id # Some(client_id)) - 1)
    ELSE None

\* element_id_map.get(node, node)
resolve_node(el_creates, first_new_id, node) ==
    IF element_id_map_get(el_creates, first_new_id, node) = None THEN node
    ELSE element_id_map_get(el_creates, first_new_id, node)[1]

\* An element that keeps the id the client sent, when the client sent one.
imported_element_keeping_id(el_create, new_element_id) ==
    [element_id |-> IF el_create.element_id = None THEN new_element_id
                    ELSE el_create.element_id[1],
     type |-> el_create.type, type_variety |-> el_create.type_variety,
     params |-> el_create.params]

\* ElementInDB(element_id=new_element_id, name=..., type=..., params=...)
imported_element(el_create, new_element_id) ==
    [element_id |-> new_element_id, type |-> el_create.type,
     type_variety |-> el_create.type_variety, params |-> el_create.params]

\* The elements an import or an insertion stores: one generated id each.
imported_elements(el_creates, first_new_id) ==
    [k \in 1..Len(el_creates) |-> imported_element(el_creates[k], first_new_id + (k - 1))]

\* The connections an import stores (no connection_id given: generated).
imported_connections(el_creates, conn_creates, first_new_id, first_conn_id) ==
    [k \in 1..Len(conn_creates) |->
        ConnectionInDB(first_conn_id + (k - 1),
                       resolve_node(el_creates, first_new_id, conn_creates[k].from_node),
                       resolve_node(el_creates, first_new_id, conn_creates[k].to_node))]

\* POST /networks/import -> create_network_from_import: the document inserted,
\* first_uuid being the first value str(uuid6()) gives the handler.
create_network_from_import(import_data, first_uuid) ==
    [elements |-> imported_elements(import_data.elements, first_uuid),
     connections |-> imported_connections(import_data.elements, import_data.connections,
                                          first_uuid,
                                          first_uuid + Len(import_data.elements)),
     SI |-> import_data.SI,
     updated_at |-> 0,
     uuids |-> Len(import_data.elements) + Len(import_data.connections)]

\* An insertion that never checks the client's element ids.
element_conflict_unchecked(sub_topo) == FALSE

\* strategy 'error': an element's client id is the id of a stored element.
element_conflict(sub_topo) ==
    /\ sub_topo.strategy = "error"
    /\ \E k \in 1..Len(sub_topo.elements) :
           /\ sub_topo.elements[k].element_id # None
           /\ element_exists(sub_topo.elements[k].element_id[1])

\* strategy 'error': a resolved connection is already stored.
connection_conflict(sub_topo) ==
    /\ sub_topo.strategy = "error"
    /\ \E k \in 1..Len(sub_topo.connections) :
           \E i \in 1..Len(connections) :
               /\ connections[i].from_node
                      = resolve_node(sub_topo.elements, uuid6_nth(1),
                                     sub_topo.connections[k].from_node)
               /\ connections[i].to_node
                      = resolve_node(sub_topo.elements, uuid6_nth(1),
                                     sub_topo.connections[k].to_node)

\* POST /networks/{id}/import -> insert_topology, insert_sub_topology.  In the
\* code the element ids are generated first and a connection's id in its turn;
\* the ids of a failed insertion are never stored, so the model gives them back.
insert_sub_topology(sub_topo) ==
    /\ UNCHANGED <<SI, inflight>>
    /\ IF element_conflict(sub_topo) \/ connection_conflict(sub_topo)
       THEN /\ response' = Some([request |-> [op |-> "insert_sub_topology",
                                              network_id |-> StoredNetworkId,
                                              sub_topo |-> sub_topo],
                                 outcome |-> Answer(409, Some("RESOURCE_CONFLICT"), None)])
            /\ UNCHANGED <<elements, connections, updated_at, next_uuid>>
       ELSE /\ elements' = elements \o imported_elements(sub_topo.elements, uuid6_nth(1))
            /\ connections' = connections \o
                   imported_connections(sub_topo.elements, sub_topo.connections,
                                        uuid6_nth(1),
                                        uuid6_nth(Len(sub_topo.elements) + 1))
            /\ next_uuid' = next_uuid + Len(sub_topo.elements) + Len(sub_topo.connections)
            /\ updated_at' = updated_at + 1
            /\ response' = Some([request |-> [op |-> "insert_sub_topology",
                                              network_id |-> StoredNetworkId,
                                              sub_topo |-> sub_topo],
                                 outcome |-> Answer(200, None, None)])

\* The ids a client may write in a request: 1 and 2 are ids the server gives
\* its first elements; 0 and -1 are ids of the client's own making.
ClientTempIds == {0, -1}
ElementCreate(element_id, type) ==
    [element_id |-> element_id, type |-> type, type_variety |-> None,
     params |-> CHOOSE params \in ParamsFor(type) : TRUE]
ConnectionCreate(from_node, to_node) == [from_node |-> from_node, to_node |-> to_node]

\* The bodies of PATCH element requests: type_variety set or not, a params
\* object that gives a length or no params, and a `type` key or none.
ElementUpdateBodies ==
    [type_variety : {None, Some("std_medium_gain")},
     params : {None, Some([length |-> 100])},
     type : {None, Some("Edfa")}]

\* The sub-topologies a client inserts.
SubTopologies ==
    [elements : {<<>>, <<ElementCreate(None, "Fiber")>>,
                 <<ElementCreate(Some(0), "Fiber")>>,
                 <<ElementCreate(Some(1), "Fiber")>>},
     connections : {<<>>, <<ConnectionCreate(0, 1)>>, <<ConnectionCreate(1, 2)>>},
     strategy : {"generate_new_id", "error"}]

\* The networks a client imports.
NetworkImports ==
    [elements : {<<>>, <<ElementCreate(Some(0), "Transceiver")>>,
                 <<ElementCreate(Some(0), "Transceiver"), ElementCreate(None, "Fiber")>>},
     connections : {<<>>, <<ConnectionCreate(0, 0)>>, <<ConnectionCreate(0, -1)>>},
     SI : {SIConfigDefault}]

\* The stored network is one an import has created (an empty import gives what
\* create_network gives).
InitTopology ==
    \E import_data \in NetworkImports :
        /\ Len(import_data.elements) <= MaxElements
        /\ elements = create_network_from_import(import_data, 1).elements
        /\ connections = create_network_from_import(import_data, 1).connections
        /\ SI = create_network_from_import(import_data, 1).SI
        /\ updated_at = create_network_from_import(import_data, 1).updated_at
        /\ next_uuid = 1 + create_network_from_import(import_data, 1).uuids
        /\ response = None
        /\ inflight = <<>>

UpdateElement ==
    /\ response = None
    /\ updated_at < MaxWrites
    /\ \E element_id \in 1..MaxElements :
          \E body \in ElementUpdateBodies :
              update_element_in_network(element_id, body)

DeleteElement ==
    /\ response = None
    /\ updated_at < MaxWrites
    /\ \E element_id \in 1..MaxElements : delete_element_from_network(element_id)

CreateConnection ==
    /\ response = None
    /\ updated_at < MaxWrites
    /\ \E from_node \in 1..MaxElements :
          \E to_node \in 1..MaxElements : create_connection(from_node, to_node)

InsertSubTopology ==
    /\ response = None
    /\ updated_at < MaxWrites
    /\ \E sub_topo \in SubTopologies :
          /\ Len(elements) + Len(sub_topo.elements) <= MaxElements
          /\ insert_sub_topology(sub_topo)

\* The client adds a Transceiver or a Fiber.
AddTopologyElement ==
    /\ response = None
    /\ updated_at < MaxWrites
    /\ \E type \in {"Transceiver", "Fiber"} :
          add_element_to_network(type, None, CHOOSE params \in ParamsFor(type) : TRUE)

NextTopology ==
    \/ AddTopologyElement
    \/ UpdateElement
    \/ DeleteElement
    \/ CreateConnection
    \/ InsertSubTopology
    \/ Acknowledge

SpecTopology == InitTopology /\ [][NextTopology]_vars

(***************************************************************************)
(* Simulations on a network that holds connections.                        *)
(***************************************************************************)

MaxConnections == 1

\* The paths that name no id twice, on the stored network.
SimplePaths == {path \in Paths : \A i, j \in 1..Len(path) : i # j => path[i] # path[j]}
SimplePathRequests ==
    [network_id : {StoredNetworkId}, path : SimplePaths, input_power_dbm : {0}]

\* The client adds a Transceiver or an amplifier.
AddPathElement ==
    /\ response = None
    /\ \E type \in {"Transceiver", "Edfa"} :
          add_element_to_network(type, None, CHOOSE params \in ParamsFor(type) : TRUE)

\* The client joins two different elements.
ConnectElements ==
    /\ response = None
    /\ Len(connections) < MaxConnections
    /\ \E from_node \in 1..MaxElements :
          \E to_node \in (1..MaxElements) \ {from_node} :
              create_connection(from_node, to_node)

\* A client asks for a simulation along a simple path.
SimulateSimplePath ==
    /\ response = None
    /\ \E request \in SimplePathRequests :
          response' = Some([request |-> request,
                            outcome |-> run_single_link_simulation(request),
                            again |-> None])
    /\ UNCHANGED <<elements, connections, SI, updated_at, next_uuid, inflight>>

NextConnected == AddPathElement \/ ConnectElements \/ SimulateSimplePath \/ Acknowledge

SpecConnected == Init /\ [][NextConnected]_vars

(***************************************************************************)
(* Imports of whole networks.                                              *)
(***************************************************************************)

\* The networks a client imports whose connections name the elements by the
\* ids the client gave them: one element, two with different ids, two with the
\* same id, and one without an id.
LinkedImports ==
    [elements : {<<ElementCreate(Some(0), "Transceiver")>>,
                 <<ElementCreate(Some(0), "Transceiver"), ElementCreate(Some(-1), "Fiber")>>,
                 <<ElementCreate(Some(0), "Transceiver"), ElementCreate(Some(0), "Fiber")>>,
                 <<ElementCreate(None, "Transceiver"), ElementCreate(Some(0), "Fiber")>>},
     connections : {<<>>, <<ConnectionCreate(0, 0)>>, <<ConnectionCreate(0, -1)>>,
                    <<ConnectionCreate(-1, 0), ConnectionCreate(0, -1)>>},
     SI : {SIConfigDefault}]

\* POST /networks/import -> import_network, create_network_from_import: the
\* network created is the stored network from then on.
import_network(import_data) ==
    /\ elements' = create_network_from_import(import_data, uuid6).elements
    /\ connections' = create_network_from_import(import_data, uuid6).connections
    /\ SI' = create_network_from_import(import_data, uuid6).SI
    /\ updated_at' = create_network_from_import(import_data, uuid6).updated_at
    /\ next_uuid' = next_uuid + create_network_from_import(import_data, uuid6).uuids
    /\ response' = Some([request |-> [op |-> "import_network",
                                      import_data |-> import_data],
                         outcome |-> Answer(201, None, None)])
    /\ UNCHANGED inflight

ImportNetwork ==
    /\ response = None
    /\ next_uuid <= MaxElements * MaxWrites
    /\ \E import_data \in LinkedImports :
          /\ Len(import_data.elements) <= MaxElements
          /\ import_network(import_data)

NextImport == ImportNetwork \/ Acknowledge

SpecImport == Init /\ [][NextImport]_vars

(***************************************************************************)
(* Properties.                                                             *)
(***************************************************************************)

\* A simulation of the stored network has been answered; its request and outcome.
OnStored == response # None /\ response[1].request.network_id = StoredNetworkId
req == response[1].request
out == response[1].outcome

ElementIds == {elements[i].element_id : i \in 1..Len(elements)}
ElementOf(id) == elements[CHOOSE i \in 1..Len(elements) : elements[i].element_id = id]
AbsentIds(path) == Range(path) \ ElementIds
TypeAt(path, i) == ElementOf(path[i]).type

\* Every id of the path is an element of the network, and no id comes twice.
Resolvable(path) ==
    /\ AbsentIds(path) = {}
    /\ \A i, j \in 1..Len(path) : i # j => path[i] # path[j]

\* The position of the first Transceiver after the first position, or one past the end.
WalkEnd(path) ==
    IF \E k \in 2..Len(path) : TypeAt(path, k) = "Transceiver"
    THEN CHOOSE k \in 2..Len(path) :
             /\ TypeAt(path, k) = "Transceiver"
             /\ \A j \in 2..(k - 1) : TypeAt(path, j) # "Transceiver"
    ELSE Len(path) + 1

\* The ids of the elements the walk traverses: positions 2 .. WalkEnd - 1.
Traversed(path) == [i \in 1..(WalkEnd(path) - 2) |-> path[i + 1]]

\* A path that meets the engine's preconditions: resolvable, led by a
\* Transceiver, with at least one traversed element, each an amplifier or a ROADM.
WellFormed(path) ==
    /\ path # <<>>
    /\ Resolvable(path)
    /\ TypeAt(path, 1) = "Transceiver"
    /\ WalkEnd(path) > 2
    /\ \A k \in 2..(WalkEnd(path) - 1) : TypeAt(path, k) \in {"Edfa", "Roadm"}

StepIds(path_results) == [i \in 1..Len(path_results) |-> path_results[i].element_id]

\* C1: when the path holds an id that no element of the network has, the
\* simulation fails with 404 and the list it reports holds exactly the path ids
\* absent from the network: all of them, and no id that exists.
C1_MissingIdsExact ==
    (OnStored /\ AbsentIds(req.path) # {}) =>
        /\ out.status_code = 404
        /\ out.body = None
        /\ out.detail # None
        /\ "missing_ids" \in DOMAIN out.detail[1]
        /\ Range(out.detail[1].missing_ids) = AbsentIds(req.path)

\* A path with one existing id and two absent ids was answered with both absent ids.
C1_Witness ==
    /\ OnStored
    /\ Cardinality(AbsentIds(req.path)) >= 2
    /\ Range(req.path) \cap ElementIds # {}
    /\ out.status_code = 404
    /\ Range(out.detail[1].missing_ids) = AbsentIds(req.path)

\* C2: for every path whose ids all reference elements of the network, path
\* resolution returns a sequence as long as the path whose i-th element has the
\* id path[i].
C2_OrderPreserved ==
    (OnStored /\ AbsentIds(req.path) = {}) =>
        /\ ~convert_to_gnpy_json([elements |-> elements], req.path).raised
        /\ Len(convert_to_gnpy_json([elements |-> elements], req.path).value.elements)
               = Len(req.path)
        /\ \A i \in 1..Len(req.path) :
               convert_to_gnpy_json([elements |-> elements], req.path).value.elements[i].uid
                   = req.path[i]

\* C3: a simulation whose resolved path does not begin with a Transceiver fails
\* with the InvalidPathStart failure, a bad request (400), and returns no trace.
C3_InvalidPathStart ==
    (OnStored /\ req.path # <<>> /\ Resolvable(req.path)
        /\ TypeAt(req.path, 1) # "Transceiver") =>
        /\ out.status_code = 400
        /\ out.body = None
        /\ out.detail # None
        /\ out.detail[1].text = "Path must start with a Transceiver, but started with {}."

C6_LeadingStepRecorded ==
    (OnStored /\ req.path # <<>> /\ Resolvable(req.path)
        /\ TypeAt(req.path, 1) = "Transceiver") =>
        \/ /\ out.body # None
           /\ out.body[1].path_results[1].element_id = req.path[1]
           /\ out.body[1].path_results[1].output_power_dbm = Some(req.input_power_dbm)
           /\ out.body[1].path_results[1].output_osnr_db = Some(si_config.tx_osnr)
           /\ out.body[1].path_results[1].added_noise_mw = ZeroNoiseMw
        \/ /\ out.body = None
           /\ "cause" \in DOMAIN out.detail[1]
           /\ out.detail[1].cause.line >= 109

\* C7: a simulation that produces no per-element step beyond the leading
\* Transceiver (a lone Transceiver, or a Transceiver followed at once by a
\* Transceiver) fails with EmptyPropagation, the service's "failed to produce
\* results" failure, and returns no result.
C7_EmptyPropagation ==
    (OnStored /\ req.path # <<>> /\ Resolvable(req.path)
        /\ TypeAt(req.path, 1) = "Transceiver" /\ WalkEnd(req.path) = 2) =>
        /\ out.body = None
        /\ \/ out.detail[1].text = "Simulation failed to produce results."
           \/ /\ "cause" \in DOMAIN out.detail[1]
              /\ out.detail[1].cause.message.text = "Simulation failed to produce results."

C10_FiberStep ==
    (OnStored /\ Len(req.path) = 3 /\ Resolvable(req.path)
        /\ TypeAt(req.path, 1) = "Transceiver" /\ TypeAt(req.path, 2) = "Fiber"
        /\ TypeAt(req.path, 3) = "Transceiver") =>
        /\ out.body # None
        /\ Len(out.body[1].path_results) >= 2
        /\ out.body[1].path_results[2].element_id = req.path[2]
        /\ out.body[1].path_results[2].output_power_dbm
               = Some(req.input_power_dbm
                      - ElementOf(req.path[2]).params.length
                        * ElementOf(req.path[2]).params.loss_coef)
        /\ out.body[1].path_results[2].output_osnr_db = None

C12_FailuresUnmodified ==
    (OnStored /\ Resolvable(req.path)
        /\ (req.path = <<>> \/ TypeAt(req.path, 1) # "Transceiver")) =>
        /\ out.status_code = 400
        /\ out.body = None
        /\ "cause" \notin DOMAIN out.detail[1]
        /\ out.detail[1].text \in
               {"Simulation path is empty.",
                "Path must start with a Transceiver, but started with {}."}

\* C13: a well-formed path that traverses an Edfa whose type_variety names no
\* amplifier model of the catalog (absent or unknown) fails with
\* MissingAmplifierModel.
C13_MissingAmplifierModel ==
    (OnStored /\ WellFormed(req.path)
        /\ \E k \in 2..(WalkEnd(req.path) - 1) :
               /\ TypeAt(req.path, k) = "Edfa"
               /\ \/ ElementOf(req.path[k]).type_variety = None
                  \/ ElementOf(req.path[k]).type_variety[1] \notin DOMAIN EdfaCatalog) =>
        /\ out.body = None
        /\ "cause" \in DOMAIN out.detail[1]
        /\ out.detail[1].cause.class = "MissingAmplifierModel"

\* C14: a simulation request whose network id resolves to no stored network
\* fails with the network's not-found failure, raised before path resolution,
\* and the caller gets it as not-found (404).
C14_NetworkNotFound ==
    (response # None /\ response[1].request.network_id # StoredNetworkId) =>
        /\ out.status_code = 404
        /\ out.body = None
        /\ out.detail # None
        /\ out.detail[1].text = "Network with id {} not found."
        /\ out.detail[1].network_id = req.network_id
        /\ "cause" \notin DOMAIN out.detail[1]
        /\ "missing_ids" \notin DOMAIN out.detail[1]

\* A request with an id that is no ObjectId, and a path the stored network
\* could resolve, was answered 404.
C14_Witness ==
    /\ response # None
    /\ req.network_id = "not an ObjectId"
    /\ req.path # <<>>
    /\ Range(req.path) \subseteq ElementIds
    /\ out.status_code = 404



\* C15: after any sequence of element additions, updates, deletions, imports
\* and sub-topology insertions no two elements of the network have the same
\* element_id.
C15_ElementIdsUnique ==
    \A i, j \in 1..Len(elements) :
        i # j => elements[i].element_id # elements[j].element_id

\* A sub-topology whose element came with the id of a stored element has been
\* inserted into a network of at least one element.
C15_Witness ==
    /\ response # None
    /\ req.op = "insert_sub_topology"
    /\ out.status_code = 200
    /\ Len(req.sub_topo.elements) = 1
    /\ req.sub_topo.elements[1].element_id = Some(1)
    /\ \E i \in 1..Len(elements) : elements[i].element_id = 1
    /\ Len(elements) >= 2

\* C16: an update request that attempts to change the kind of a recorded
\* element is rejected, and the element keeps the type it had.
C16_KindChangeRejected ==
    (response # None /\ req.op = "update_element" /\ element_exists(req.element_id)
        /\ req.body.type # None
        /\ req.body.type[1] # ElementOf(req.element_id).type) =>
        out.status_code >= 400

\* C17: every stored connection has from_node and to_node equal to ids of
\* elements currently in the network.
C17_ConnectionsReferToElements ==
    \A i \in 1..Len(connections) :
        /\ connections[i].from_node \in ElementIds
        /\ connections[i].to_node \in ElementIds

C20_LaunchFromNetworkSI ==
    (OnStored /\ req.path # <<>> /\ Resolvable(req.path)
        /\ TypeAt(req.path, 1) = "Transceiver") =>
        /\ si_config.tx_osnr = SI.tx_osnr
        /\ out.body # None
        /\ out.body[1].path_results[1].output_osnr_db = Some(SI.tx_osnr)

\* C21: update_element changes only the fields the request provides: every
\* attribute the request does not give, every parameter inside params that the
\* request's params object does not mention included, reads the same after the
\* update as before, and every other element of the network is unchanged.
C21_OnlyProvidedFieldsChange ==
    [][(/\ response = None /\ response' # None
        /\ response'[1].request.op = "update_element"
        /\ response'[1].outcome.status_code = 200) =>
           /\ Len(elements') = Len(elements)
           /\ \A i \in 1..Len(elements) :
                  IF elements[i].element_id # response'[1].request.element_id
                  THEN elements'[i] = elements[i]
                  ELSE /\ elements'[i].element_id = elements[i].element_id
                       /\ elements'[i].type = elements[i].type
                       /\ response'[1].request.body.type_variety = None =>
                              elements'[i].type_variety = elements[i].type_variety
                       /\ \A f \in DOMAIN read_element(elements[i]).params :
                              (\/ response'[1].request.body.params = None
                               \/ f \notin DOMAIN response'[1].request.body.params[1]) =>
                                  read_element(elements'[i]).params[f]
                                      = read_element(elements[i]).params[f]]_vars

\* C22: a path that holds a Fused or a RamanFiber element between its two
\* Transceivers is resolved to a typed element of that kind, is propagated, and
\* the trace returned holds a step for that element.
C22_EveryKindSupported ==
    (OnStored /\ Len(req.path) = 3 /\ Resolvable(req.path)
        /\ TypeAt(req.path, 1) = "Transceiver"
        /\ TypeAt(req.path, 2) \in {"Fused", "RamanFiber"}
        /\ TypeAt(req.path, 3) = "Transceiver") =>
        /\ gnpy_el_of(ElementOf(req.path[2])).type = TypeAt(req.path, 2)
        /\ out.status_code = 200
        /\ out.body # None
        /\ \E k \in 1..Len(out.body[1].path_results) :
               /\ out.body[1].path_results[k].element_id = req.path[2]
               /\ out.body[1].path_results[k].element_type = TypeAt(req.path, 2)

\* C23: the adapter hands each element's own stored parameters to the engine:
\* for every Fiber of the path the emitted length and loss coefficient are the
\* element's params.length and params.loss_coef, and for every Edfa the emitted
\* gain target and tilt target are its params.gain_target and params.tilt_target.
C23_StoredParamsHandedOver ==
    (OnStored /\ Resolvable(req.path)) =>
        \A i \in 1..Len(req.path) :
            /\ TypeAt(req.path, i) = "Fiber" =>
                   /\ gnpy_el_of(ElementOf(req.path[i])).params[1].length
                          = Num(ElementOf(req.path[i]).params.length)
                   /\ IsNum(gnpy_el_of(ElementOf(req.path[i])).params[1].loss_coef)
                   /\ gnpy_el_of(ElementOf(req.path[i])).params[1].loss_coef.num
                          = ElementOf(req.path[i]).params.loss_coef
            /\ TypeAt(req.path, i) = "Edfa" =>
                   /\ gnpy_el_of(ElementOf(req.path[i])).params[1].operational.gain_target
                          = ElementOf(req.path[i]).params.gain_target
                   /\ ElementOf(req.path[i]).params.tilt_target # None =>
                          gnpy_el_of(ElementOf(req.path[i])).params[1].operational.tilt_target
                              = Num(ElementOf(req.path[i]).params.tilt_target[1])

\* The stored network with other connections in the place of its own.
WithConnections(conns) ==
    Some([elements |-> elements, connections |-> conns, SI |-> SI,
          updated_at |-> updated_at])

\* Connection sets to compare with: none, the chain that joins the consecutive
\* ids of the path, and the chain that joins them the other way round.
OtherConnections(path) ==
    {<<>>, [i \in 1..(IF Len(path) = 0 THEN 0 ELSE Len(path) - 1) |->
               ConnectionInDB(0, path[i], path[i + 1])]}
    \cup {[i \in 1..(IF Len(path) = 0 THEN 0 ELSE Len(path) - 1) |->
               ConnectionInDB(0, path[i + 1], path[i])]}

\* C24: the simulation outcome does not depend on the network's connections:
\* on a network with the same elements and other connections the same path
\* gives the same resolved sequence and the same result, and the resolution
\* accepts a path whose consecutive ids no Connection joins.
C24_ConnectionsIrrelevant ==
    (response # None /\ "path" \in DOMAIN req) =>
        /\ \A conns \in OtherConnections(req.path) :
               /\ convert_to_gnpy_json(WithConnections(conns)[1], req.path)
                      = convert_to_gnpy_json(WithConnections(connections)[1], req.path)
               /\ http_outcome(after_get_network(req, WithConnections(conns))) = out
        /\ Resolvable(req.path) =>
               ~convert_to_gnpy_json(WithConnections(connections)[1], req.path).raised

\* A simulation along two or more existing elements none of whose consecutive
\* pairs is joined, on a network that holds a connection.
C24_Witness ==
    /\ response # None /\ "path" \in DOMAIN req
    /\ Len(req.path) >= 2 /\ Resolvable(req.path)
    /\ connections # <<>>
    /\ \A i \in 1..(Len(req.path) - 1) :
           \A k \in 1..Len(connections) :
               \/ connections[k].from_node # req.path[i]
               \/ connections[k].to_node # req.path[i + 1]

\* C25: path resolution reports not-found only when a path id is absent from
\* the network: whenever it fails with not-found, the list of missing ids it
\* reports is non-empty, also for a path that names an existing id twice.
C25_NotFoundNamesMissingId ==
    (OnStored /\ out.status_code = 404 /\ "missing_ids" \in DOMAIN out.detail[1]) =>
        /\ out.detail[1].missing_ids # <<>>
        /\ AbsentIds(req.path) # {}

C27_DeleteAbsentNotFound ==
    [][(/\ response = None /\ response' # None
        /\ response'[1].request.op = "delete_element") =>
           /\ (response'[1].outcome.status_code = 204)
                  <=> element_exists(response'[1].request.element_id)
           /\ ~element_exists(response'[1].request.element_id) =>
                  /\ response'[1].outcome.status_code = 404
                  /\ response'[1].outcome.detail = Some("ELEMENT_NOT_FOUND")]_vars

\* A client-provided element id of the sub-topology is the id of a stored element.
ClientIdStored(sub_topo) ==
    \E k \in 1..Len(sub_topo.elements) :
        /\ sub_topo.elements[k].element_id # None
        /\ sub_topo.elements[k].element_id[1] \in ElementIds

\* A connection of the sub-topology, its ends resolved, is a stored connection.
ResolvedConnectionStored(sub_topo) ==
    \E k \in 1..Len(sub_topo.connections) :
        \E i \in 1..Len(connections) :
            /\ connections[i].from_node
                   = resolve_node(sub_topo.elements, uuid6, sub_topo.connections[k].from_node)
            /\ connections[i].to_node
                   = resolve_node(sub_topo.elements, uuid6, sub_topo.connections[k].to_node)

\* C28: insert_sub_topology with strategy 'error', when a client-provided
\* element id already exists in the network or a resolved connection already
\* exists in it, fails with a conflict and leaves the stored network as it was:
\* no element and no connection of the request is added.
C28_ConflictLeavesNetwork ==
    [][(/\ response = None /\ response' # None
        /\ response'[1].request.op = "insert_sub_topology"
        /\ response'[1].request.sub_topo.strategy = "error"
        /\ \/ ClientIdStored(response'[1].request.sub_topo)
           \/ ResolvedConnectionStored(response'[1].request.sub_topo)) =>
           /\ response'[1].outcome.status_code = 409
           /\ response'[1].outcome.detail = Some("RESOURCE_CONFLICT")
           /\ UNCHANGED <<elements, connections>>]_vars

\* An insertion with strategy 'error' that brings elements and a connection
\* already stored has been refused.
C28_Witness ==
    /\ response # None
    /\ req.op = "insert_sub_topology"
    /\ req.sub_topo.strategy = "error"
    /\ req.sub_topo.elements # <<>>
    /\ ResolvedConnectionStored(req.sub_topo)
    /\ out.status_code = 409

\* C29: create_network_from_import gives every imported element a generated id
\* and remaps the connections with it: for every imported connection whose
\* from_node or to_node is the client-provided element_id of an imported
\* element, the stored connection end is the generated id of that element.
C29_ConnectionsRemapped ==
    (response # None /\ req.op = "import_network") =>
        /\ Len(elements) = Len(req.import_data.elements)
        /\ Len(connections) = Len(req.import_data.connections)
        /\ \A e \in 1..Len(elements) : elements[e].element_id \notin ClientTempIds
        /\ \A k \in 1..Len(connections) :
               \A e \in 1..Len(elements) :
                   /\ req.import_data.elements[e].element_id
                          = Some(req.import_data.connections[k].from_node) =>
                          connections[k].from_node = elements[e].element_id
                   /\ req.import_data.elements[e].element_id
                          = Some(req.import_data.connections[k].to_node) =>
                          connections[k].to_node = elements[e].element_id

====
